---- MODULE Spec2Model ----
(***************************************************************************)
(* Model of the portfolio-performance data-processing pipeline             *)
(* (src/utilities/data_processing.py).                                     *)
(*                                                                         *)
(* A date is the number of days since 1970-01-01.  A table cell is either  *)
(* NaN (the empty tuple) or a number v (the one-element tuple <<v>>), so   *)
(* that a missing value and a number can be compared.  A percentage is a   *)
(* reduced fraction <<num, den>> with den > 0.                             *)
(***************************************************************************)
EXTENDS Integers, Sequences, FiniteSets

VARIABLES
    caller,           \* which function of data_processing.py the run calls
    pc,               \* "ready" before the call, "done" after it
    px_etf,           \* px_etf.csv: observation date -> [ticker -> cell]
    tx_etf,           \* tx_etf.csv: sequence of [date, ticker, qty, order]
    start_date,       \* argument start_date of the call
    end_date,         \* argument end_date of the call
    exclude_etfs,     \* argument exclude_etfs (the tickers left out)
    etfs,             \* argument etfs of get_etf_quantities (the tickers asked for)
    etf_prices,       \* result of get_etf_prices
    etf_quantities,   \* result of get_etf_quantities
    positions_value,  \* the positions value table: date -> [value -> cell]
    cash_flow,        \* result of get_cash_flow
    freq,             \* argument freq of get_portfolio_performance
    period_tuples,    \* the (start, end) windows get_portfolio_performance built
    portfolio_perf,   \* result of get_portfolio_performance
    standard_deviation,  \* result of get_standard_deviation_of_daily_returns
    plot_lock,        \* plot_lock: 0 when free, else the request that holds it
    current_figure,   \* pyplot's current figure: <<request, n>>, <<>> for none
    request_pc,       \* where each request to a chart endpoint stands
    request_charts,   \* the number of charts the endpoint of each request draws
    figures_created,  \* the number of figures each request has created
    plot_buffers      \* the figures saved into the buffers of each request

data_vars == <<caller, pc, px_etf, tx_etf, start_date, end_date, exclude_etfs, etfs,
               etf_prices, etf_quantities, positions_value, cash_flow, freq,
               period_tuples, portfolio_perf, standard_deviation>>

plot_vars == <<plot_lock, current_figure, request_pc, request_charts,
               figures_created, plot_buffers>>

vars == <<data_vars, plot_vars>>

(***************************************************************************)
(* Bounds of the model.                                                    *)
(***************************************************************************)
MaxObs == 2       \* rows of px_etf.csv
MaxTx == 2        \* rows of tx_etf.csv
Edge == 2         \* days kept on each side of a month boundary as sample dates
MaxDays == 4      \* days of the series the risk statistic is computed on
MaxReq == 2       \* concurrent requests to the chart endpoints

(***************************************************************************)
(* Cells: NaN and numbers, with pandas' NaN-propagating arithmetic.        *)
(***************************************************************************)
NaN == <<>>

Num(v) == <<v>>

IsNaN(c) == c = NaN

Add(a, b) == IF IsNaN(a) \/ IsNaN(b) THEN NaN ELSE Num(a[1] + b[1])

Sub(a, b) == IF IsNaN(a) \/ IsNaN(b) THEN NaN ELSE Num(a[1] - b[1])

Mul(a, b) == IF IsNaN(a) \/ IsNaN(b) THEN NaN ELSE Num(a[1] * b[1])

(***************************************************************************)
(* The calendar of pandas' Timestamp, date_range and period_range: the     *)
(* proleptic Gregorian calendar, on day numbers.                           *)
(***************************************************************************)
DaysFromCivil(y, m, d) ==
    LET yy  == IF m <= 2 THEN y - 1 ELSE y
        era == yy \div 400
        yoe == yy - era * 400
        mp  == IF m > 2 THEN m - 3 ELSE m + 9
        doy == (153 * mp + 2) \div 5 + d - 1
        doe == yoe * 365 + yoe \div 4 - yoe \div 100 + doy
    IN  era * 146097 + doe - 719468

CivilFromDays(z) ==
    LET zz  == z + 719468
        era == zz \div 146097
        doe == zz - era * 146097
        yoe == (doe - doe \div 1460 + doe \div 36524 - doe \div 146096) \div 365
        doy == doe - (365 * yoe + yoe \div 4 - yoe \div 100)
        mp  == (5 * doy + 2) \div 153
        d   == doy - (153 * mp + 2) \div 5 + 1
        m   == IF mp < 10 THEN mp + 3 ELSE mp - 9
        y   == yoe + era * 400 + (IF m <= 2 THEN 1 ELSE 0)
    IN  [year |-> y, month |-> m, day |-> d]

\* date_range(start=start_date, end=end_date, freq='D'): every day, both ends in.
date_range_open(start, end) == start .. (end - 1)

date_range(start, end) == start .. end

(***************************************************************************)
(* The input files.                                                        *)
(***************************************************************************)
ETFS == {"A", "B"}

\* The days the ledgers of the model may mention: three consecutive days.
LedgerFirst == DaysFromCivil(2022, 12, 31)

LedgerDays == LedgerFirst .. (LedgerFirst + 2)

PriceCells == {NaN, Num(1), Num(2)}

\* px_etf.csv read with index_col='Date': at most MaxObs rows, one per date.
PriceTables ==
    UNION { [obs -> [ETFS -> PriceCells]] :
              obs \in {s \in SUBSET LedgerDays : Cardinality(s) <= MaxObs} }

ArgRanges == {r \in LedgerDays \X LedgerDays : r[1] <= r[2]}

Unset == [status |-> "unset"]

(***************************************************************************)
(* get_etf_prices                                                          *)
(***************************************************************************)
\* DataFrame.drop(exclude_etfs, axis=1)
DropColumns(table, excluded) ==
    [d \in DOMAIN table |-> [e \in (DOMAIN table[d]) \ excluded |-> table[d][e]]]

\* DataFrame.reindex(index): the rows whose label is in the new index are kept,
\* every other label of the new index gets a row of NaN.
Reindex(table, index, columns) ==
    [d \in index |-> IF d \in DOMAIN table THEN table[d]
                     ELSE [e \in columns |-> NaN]]

\* DataFrame.ffill(): a NaN cell takes the last non-NaN cell above it in its
\* column, and stays NaN when there is none.
RECURSIVE FfillCell(_, _, _, _)
FfillCell(table, first, d, e) ==
    IF ~IsNaN(table[d][e]) THEN table[d][e]
    ELSE IF d = first THEN NaN
    ELSE FfillCell(table, first, d - 1, e)

Ffill(table, first, columns) ==
    [d \in DOMAIN table |-> [e \in columns |-> FfillCell(table, first, d, e)]]

get_etf_prices_no_fill(px, start, end, excluded) ==
    Reindex(DropColumns(px, excluded), date_range(start, end), ETFS \ excluded)

get_etf_prices(px, start, end, excluded) ==
    LET columns == ETFS \ excluded
        dropped == DropColumns(px, excluded)
        all_dates == date_range(start, end)
    IN  Ffill(Reindex(dropped, all_dates, columns), start, columns)

(***************************************************************************)
(* get_etf_quantities                                                      *)
(***************************************************************************)
Orders == {"BUY", "SELL"}

Qtys == {1, 2}

TxRecords == [date : LedgerDays, ticker : ETFS, qty : Qtys, order : Orders]

\* tx_etf.csv: at most MaxTx rows, ordered by date.
Ledgers ==
    UNION { {s \in [1 .. n -> TxRecords] :
                \A i \in 1 .. n - 1 : s[i].date <= s[i + 1].date} :
            n \in 0 .. MaxTx }

\* etf_transactions['date'].unique()
UniqueDates(tx) == {tx[i].date : i \in DOMAIN tx}

\* qty if order_type == 'BUY' else -qty
SignedQtyNoSell(t) == t.qty

SignedQty(t) == IF t.order = "BUY" THEN t.qty ELSE 0 - t.qty

\* One iteration of the loop over etf_transactions.iterrows(): st.prev is
\* prev_date (<<>> for None), st.frame the sparse etf_quantities frame.
ReplayQuantity(st, t, columns) ==
    IF t.ticker \notin columns THEN st
    ELSE
      LET snap == IF st.prev = <<t.date>> THEN st.frame
                  ELSE IF st.prev # <<>>
                       THEN [st.frame EXCEPT ![t.date] = st.frame[st.prev[1]]]
                       ELSE [st.frame EXCEPT ![t.date] = [e \in columns |-> Num(0)]]
      IN  [frame |-> [snap EXCEPT ![t.date][t.ticker] = Add(@, Num(SignedQty(t)))],
           prev  |-> <<t.date>>]

RECURSIVE ReplayQuantities(_, _, _, _)
ReplayQuantities(st, tx, i, columns) ==
    IF i > Len(tx) THEN st
    ELSE ReplayQuantities(ReplayQuantity(st, tx[i], columns), tx, i + 1, columns)

\* DataFrame.astype(int): raises ValueError when a cell is NaN.
HasNaN(table, columns) ==
    \E d \in DOMAIN table : \E e \in columns : IsNaN(table[d][e])

get_etf_quantities(tx, start, end, columns) ==
    LET frame0 == [d \in UniqueDates(tx) |-> [e \in columns |-> NaN]]
        sparse == ReplayQuantities([frame |-> frame0, prev |-> <<>>], tx, 1, columns).frame
        all_dates == date_range(start, end)
        dense == Ffill(Reindex(sparse, all_dates, columns), start, columns)
    IN  IF HasNaN(dense, columns) THEN [status |-> "ValueError"]
        ELSE [status |-> "ok", table |-> dense]

(***************************************************************************)
(* get_cash_flow                                                           *)
(***************************************************************************)
\* INVESTMENT, the invested_cash the callers pass.
INVESTMENT == 1000000

\* -qty if order_type == 'BUY' else qty
CashQtyUnsigned(t) == t.qty

CashQty(t) == IF t.order = "BUY" THEN 0 - t.qty ELSE t.qty

\* One iteration of the loop over etf_transactions.iterrows(): st.cash is
\* current_cash, st.frame the cash_flows frame, st.status "KeyError" once
\* etf_prices.at[date, ticker] found no such row or column.
ReplayCash(st, t, prices, excluded) ==
    IF st.status # "ok" \/ t.ticker \in excluded THEN st
    ELSE IF t.date \notin DOMAIN prices \/ t.ticker \notin DOMAIN prices[t.date]
    THEN [st EXCEPT !.status = "KeyError"]
    ELSE
      LET current_cash == Add(st.cash, Mul(prices[t.date][t.ticker], Num(CashQty(t))))
      IN  [status |-> "ok",
           cash   |-> current_cash,
           frame  |-> [st.frame EXCEPT ![t.date] = [value |-> current_cash]]]

RECURSIVE ReplayCashAll(_, _, _, _, _)
ReplayCashAll(st, tx, i, prices, excluded) ==
    IF i > Len(tx) THEN st
    ELSE ReplayCashAll(ReplayCash(st, tx[i], prices, excluded), tx, i + 1,
                       prices, excluded)

get_cash_flow_no_skip(prices, tx, start, end, invested_cash, excluded) ==
    LET cash_flows == [d \in date_range(start, end) |-> [value |-> NaN]]
        st == ReplayCashAll([status |-> "ok", cash |-> Num(invested_cash),
                             frame |-> cash_flows], tx, 1, prices, {})
    IN  IF st.status # "ok" THEN [status |-> st.status]
        ELSE [status |-> "ok", table |-> Ffill(st.frame, start, {"value"})]

get_cash_flow(prices, tx, start, end, invested_cash, excluded) ==
    LET cash_flows == [d \in date_range(start, end) |-> [value |-> NaN]]
        st == ReplayCashAll([status |-> "ok", cash |-> Num(invested_cash),
                             frame |-> cash_flows], tx, 1, prices, excluded)
    IN  IF st.status # "ok" THEN [status |-> st.status]
        ELSE [status |-> "ok", table |-> Ffill(st.frame, start, {"value"})]

(***************************************************************************)
(* get_portfolio_performance                                               *)
(***************************************************************************)
\* if freq not in ['M', 'Y']: raise ValueError
ValidFreqAny == {"M", "Y", "D"}

ValidFreq == {"M", "Y"}

\* Period.start_time of the period of frequency f that holds day d.
PeriodStart(d, f) ==
    LET c == CivilFromDays(d)
    IN  IF f = "M" THEN DaysFromCivil(c.year, c.month, 1)
        ELSE IF f = "Y" THEN DaysFromCivil(c.year, 1, 1)
        ELSE d

\* Period.end_time.floor('D') of the period of frequency f that holds day d.
PeriodEnd(d, f) ==
    LET c == CivilFromDays(d)
    IN  IF f = "M"
        THEN (IF c.month = 12 THEN DaysFromCivil(c.year + 1, 1, 1)
              ELSE DaysFromCivil(c.year, c.month + 1, 1)) - 1
        ELSE IF f = "Y" THEN DaysFromCivil(c.year + 1, 1, 1) - 1
        ELSE d

\* [(period.start_time, period.end_time.floor('D'))
\*      for period in period_range(start=start, end=end, freq=f)]
RECURSIVE PeriodTuples(_, _, _)
PeriodTuples(cur, end, f) ==
    IF PeriodEnd(cur, f) >= end THEN << <<PeriodStart(cur, f), PeriodEnd(cur, f)>> >>
    ELSE << <<PeriodStart(cur, f), PeriodEnd(cur, f)>> >>
         \o PeriodTuples(PeriodEnd(cur, f) + 1, end, f)

\* period_tuples[0] = (start_date, period_tuples[0][1])
\* period_tuples[-1] = (period_tuples[-1][0], end_date)
OverrideBoundsLastOnly(pt, start, end) ==
    [pt EXCEPT ![Len(pt)] = <<pt[Len(pt)][1], end>>]

OverrideBounds(pt, start, end) ==
    LET first == [pt EXCEPT ![1] = <<start, pt[1][2]>>]
    IN  [first EXCEPT ![Len(first)] = <<first[Len(first)][1], end>>]

RECURSIVE Gcd(_, _)
Gcd(a, b) == IF b = 0 THEN a ELSE Gcd(b, a % b)

Abs(a) == IF a < 0 THEN 0 - a ELSE a

\* The quotient n / d (d # 0) as a reduced fraction with a positive denominator.
Frac(n, d) ==
    LET g == Gcd(Abs(n), Abs(d))
        sgn == IF d < 0 THEN 0 - 1 ELSE 1
    IN  <<(sgn * n) \div g, (sgn * d) \div g>>

Zero == <<0, 1>>

\* (end_value - start_value) / start_value * 100
PctDelta(start_value, end_value) ==
    IF IsNaN(start_value) \/ IsNaN(end_value) THEN NaN
    ELSE Frac((end_value[1] - start_value[1]) * 100, start_value[1])

\* positions_value.at[d, 'value'] + cash_flow.at[d, 'value']
ValueAt(positions, cash, d) == Add(positions[d].value, cash[d].value)

\* DataFrame(index=end_dates, columns=['USD value', '% value']): one row per
\* label of end_dates, in order, every cell NaN.
NewPerfTable(end_dates) ==
    [k \in DOMAIN end_dates |-> [date |-> end_dates[k], usd |-> NaN, pct |-> NaN]]

\* portfolio_perf.loc[label] = 0: every row that carries the label.
SetRowsZero(rows, label) ==
    [k \in DOMAIN rows |->
        IF rows[k].date = label THEN [rows[k] EXCEPT !.usd = Num(0), !.pct = Zero]
        ELSE rows[k]]

\* portfolio_perf.at[label, 'USD value'] = v: with a label the index repeats,
\* .at sets every row that carries it.
SetUsd(rows, label, v) ==
    [k \in DOMAIN rows |->
        IF rows[k].date = label THEN [rows[k] EXCEPT !.usd = v] ELSE rows[k]]

\* portfolio_perf.at[label, '% value'] = v
SetPct(rows, label, v) ==
    [k \in DOMAIN rows |->
        IF rows[k].date = label THEN [rows[k] EXCEPT !.pct = v] ELSE rows[k]]

\* One iteration of the loop over period_tuples.
FillWindowNoZeroGuard(rows, w, positions, cash) ==
    LET start_value == ValueAt(positions, cash, w[1])
        end_value == ValueAt(positions, cash, w[2])
        withUsd == SetUsd(rows, w[2], Sub(end_value, start_value))
    IN  IF start_value = Num(0) THEN SetPct(withUsd, w[2], NaN)
        ELSE SetPct(withUsd, w[2], PctDelta(start_value, end_value))

FillWindow(rows, w, positions, cash) ==
    LET start_value == ValueAt(positions, cash, w[1])
        end_value == ValueAt(positions, cash, w[2])
        withUsd == SetUsd(rows, w[2], Sub(end_value, start_value))
    IN  IF start_value = Num(0) THEN SetPct(withUsd, w[2], Zero)
        ELSE SetPct(withUsd, w[2], PctDelta(start_value, end_value))

RECURSIVE FillWindows(_, _, _, _, _)
FillWindows(rows, pt, i, positions, cash) ==
    IF i > Len(pt) THEN rows
    ELSE FillWindows(FillWindow(rows, pt[i], positions, cash), pt, i + 1,
                     positions, cash)

\* The windows and the table of get_portfolio_performance for a valid freq.
PerfWindows(start, end, f) == OverrideBounds(PeriodTuples(start, end, f), start, end)

\* positions_value.at[d, 'value'] and cash_flow.at[d, 'value'] raise KeyError
\* for a date d that is no label of the series.
ReadsMissingDate(pt, positions, cash) ==
    \E k \in DOMAIN pt : \E d \in {pt[k][1], pt[k][2]} :
        d \notin DOMAIN positions \/ d \notin DOMAIN cash

PerfTable(pt, positions, cash, start) ==
    LET end_dates == <<start>> \o [k \in DOMAIN pt |-> pt[k][2]]
    IN  IF ReadsMissingDate(pt, positions, cash) THEN [status |-> "KeyError"]
        ELSE [status |-> "ok",
              rows |-> FillWindows(SetRowsZero(NewPerfTable(end_dates), start),
                                   pt, 1, positions, cash)]

(***************************************************************************)
(* get_positions_value                                                     *)
(***************************************************************************)
\* etf_prices * etf_quantities: the frames are aligned on rows and columns, a
\* cell that either frame lacks is NaN.
MulFrames(prices, quantities) ==
    [d \in (DOMAIN prices) \cup (DOMAIN quantities) |->
        [e \in UNION ({DOMAIN prices[o] : o \in DOMAIN prices}
                      \cup {DOMAIN quantities[o] : o \in DOMAIN quantities}) |->
            IF d \in DOMAIN prices /\ d \in DOMAIN quantities
               /\ e \in DOMAIN prices[d] /\ e \in DOMAIN quantities[d]
            THEN Mul(prices[d][e], quantities[d][e])
            ELSE NaN]]

\* .sum(axis=1): the sum of the cells of a row that are not NaN, 0 for none.
RECURSIVE SumRow(_, _)
SumRow(row, columns) ==
    IF columns = {} THEN 0
    ELSE LET e == CHOOSE x \in columns : TRUE
         IN  (IF IsNaN(row[e]) THEN 0 ELSE row[e][1]) + SumRow(row, columns \ {e})

get_positions_value_unpriced(prices, quantities) ==
    [d \in DOMAIN quantities |->
        [value |-> Num(SumRow(quantities[d], DOMAIN quantities[d]))]]

get_positions_value(prices, quantities) ==
    LET product == MulFrames(prices, quantities)
    IN  [d \in DOMAIN product |->
            [value |-> Num(SumRow(product[d], DOMAIN product[d]))]]

(***************************************************************************)
(* get_standard_deviation_of_daily_returns                                 *)
(*                                                                         *)
(* A float of the risk statistic is NaN, a reduced fraction <<n, d>> with  *)
(* d > 0, or an infinity: <<1, 0>> and <<-1, 0>>.                          *)
(***************************************************************************)
PosInf == <<1, 0>>

NegInf == <<0 - 1, 0>>

Sign(n) == IF n > 0 THEN 1 ELSE IF n < 0 THEN 0 - 1 ELSE 0

IsInf(x) == ~IsNaN(x) /\ x[2] = 0

\* The float of a table cell.
Float(c) == IF IsNaN(c) THEN NaN ELSE <<c[1], 1>>

FNeg(a) == IF IsNaN(a) THEN NaN ELSE <<0 - a[1], a[2]>>

FAdd(a, b) ==
    IF IsNaN(a) \/ IsNaN(b) THEN NaN
    ELSE IF IsInf(a) /\ IsInf(b) THEN (IF a = b THEN a ELSE NaN)
    ELSE IF IsInf(a) THEN a
    ELSE IF IsInf(b) THEN b
    ELSE Frac(a[1] * b[2] + b[1] * a[2], a[2] * b[2])

FSub(a, b) == FAdd(a, FNeg(b))

FMul(a, b) ==
    IF IsNaN(a) \/ IsNaN(b) THEN NaN
    ELSE IF IsInf(a) \/ IsInf(b)
    THEN (IF a[1] = 0 \/ b[1] = 0 THEN NaN ELSE <<Sign(a[1]) * Sign(b[1]), 0>>)
    ELSE Frac(a[1] * b[1], a[2] * b[2])

\* Float division: x / 0 is an infinity, 0 / 0 and inf / inf are NaN; nothing
\* is raised.
FDiv(a, b) ==
    IF IsNaN(a) \/ IsNaN(b) THEN NaN
    ELSE IF IsInf(b) THEN (IF IsInf(a) THEN NaN ELSE <<0, 1>>)
    ELSE IF b[1] = 0 THEN (IF a[1] = 0 THEN NaN ELSE <<Sign(a[1]), 0>>)
    ELSE IF IsInf(a) THEN <<Sign(a[1]) * Sign(b[1]), 0>>
    ELSE Frac(a[1] * b[2], a[2] * b[1])

\* Series.sum() and the sum inside Series.mean(): NaN cells are skipped, the
\* sum of no cell is 0.
RECURSIVE SumSkipNaN(_, _)
SumSkipNaN(data, labels) ==
    IF labels = {} THEN <<0, 1>>
    ELSE LET d == CHOOSE x \in labels : TRUE
             rest == SumSkipNaN(data, labels \ {d})
         IN  IF IsNaN(data[d]) THEN rest ELSE FAdd(data[d], rest)

\* DataFrame.mean(): the mean of the cells that are not NaN, NaN for none.
Mean(data) ==
    LET valid == {d \in DOMAIN data : ~IsNaN(data[d])}
    IN  IF valid = {} THEN NaN
        ELSE FDiv(SumSkipNaN(data, valid), <<Cardinality(valid), 1>>)

\* math.sqrt(x): the root stays symbolic, sqrt(NaN) is NaN and sqrt(inf) is
\* inf; a negative x raises ValueError.
Sqrt(x) == [root_of |-> x]

calculate_standard_deviation(data) ==
    LET mean == Mean(data)
        n == Cardinality(DOMAIN data)
        deviation_from_mean ==
            [d \in DOMAIN data |->
                FMul(FSub(mean, data[d]), FSub(mean, data[d]))]
        sum_deviation_from_mean == SumSkipNaN(deviation_from_mean, DOMAIN data)
        quotient == FDiv(sum_deviation_from_mean, <<n - 1, 1>>)
    IN  IF ~IsNaN(quotient) /\ quotient[1] < 0 THEN [status |-> "ValueError"]
        ELSE [status |-> "ok", value |-> Sqrt(quotient)]

\* positions_value + cash_flow: aligned on the row labels.
AddFrames(positions, cash) ==
    [d \in (DOMAIN positions) \cup (DOMAIN cash) |->
        IF d \in DOMAIN positions /\ d \in DOMAIN cash
        THEN Add(positions[d].value, cash[d].value)
        ELSE NaN]

\* portfolio_values.shift(1): each row takes the value of the row before it,
\* the first row NaN.
Shift(series) ==
    [d \in DOMAIN series |->
        LET before == {o \in DOMAIN series : o < d}
        IN  IF before = {} THEN NaN
            ELSE series[CHOOSE o \in before : \A x \in before : x <= o]]

\* (portfolio_values - beginning_values) / beginning_values * 100
DailyReturns(portfolio_values) ==
    LET beginning_values == Shift(portfolio_values)
    IN  [d \in DOMAIN portfolio_values |->
            FMul(FDiv(FSub(Float(portfolio_values[d]), Float(beginning_values[d])),
                      Float(beginning_values[d])),
                 <<100, 1>>)]

get_standard_deviation_of_daily_returns(positions, cash) ==
    calculate_standard_deviation(DailyReturns(AddFrames(positions, cash)))

(***************************************************************************)
(* The runs: each behaviour calls one function of the module on inputs     *)
(* drawn from the bounded sets below.                                      *)
(***************************************************************************)
\* The sample dates of the performance runs: the days within Edge of the
\* boundaries 2022-12-31 | 2023-01-01 (a year end) and 2023-01-31 | 2023-02-01.
YearBoundary == DaysFromCivil(2023, 1, 1)

MonthBoundary == DaysFromCivil(2023, 2, 1)

PerfDays ==
    ((YearBoundary - Edge) .. (YearBoundary + Edge - 1))
    \cup ((MonthBoundary - Edge) .. (MonthBoundary + Edge - 1))

PerfRanges == {r \in PerfDays \X PerfDays : r[1] <= r[2]}

PosVals == {0, 1, 2}

CashVals == {0 - 1, 0, 1}

\* A positions value series over start .. end: p0, then p1 from day b on.
PositionsSeries(start, end) ==
    { [d \in start .. end |-> [value |-> IF d < b THEN Num(p0) ELSE Num(p1)]] :
        b \in PerfDays \cap ((start + 1) .. end), p0 \in PosVals, p1 \in PosVals }
    \cup { [d \in start .. end |-> [value |-> Num(p0)]] : p0 \in PosVals }

\* A cash series over start .. end as get_cash_flow leaves it: NaN before the
\* first transaction date a (a = end + 1: no transaction), then a balance.
CashSeries(start, end) ==
    { [status |-> "ok",
       table |-> [d \in start .. end |-> [value |-> IF d < a THEN NaN ELSE Num(c)]]] :
        a \in (PerfDays \cap (start .. end)) \cup {end + 1}, c \in CashVals }

\* The price files of the cash runs: a row on the first ledger day and on any
\* of the later ones, ticker B unpriced in one kind of row.
CashPriceRows == {[e \in ETFS |-> IF e = "A" THEN Num(1) ELSE Num(2)],
                  [e \in ETFS |-> IF e = "A" THEN Num(2) ELSE NaN]}

CashPriceTables ==
    UNION { [obs -> CashPriceRows] :
              obs \in {s \in SUBSET LedgerDays : LedgerFirst \in s} }

Freqs == {"M", "Y", "D"}

NoCall ==
    /\ start_date = LedgerFirst
    /\ end_date = LedgerFirst
    /\ exclude_etfs = {}
    /\ etfs = {}
    /\ etf_prices = Unset
    /\ etf_quantities = Unset
    /\ freq = "Y"
    /\ period_tuples = <<>>
    /\ portfolio_perf = Unset
    /\ standard_deviation = Unset

InitPrices ==
    /\ caller = "prices"
    /\ pc = "ready"
    /\ px_etf \in PriceTables
    /\ tx_etf = <<>>
    /\ positions_value = <<>>
    /\ cash_flow = Unset
    /\ NoCall

InitQuantities ==
    /\ caller = "quantities"
    /\ pc = "ready"
    /\ px_etf = <<>>
    /\ tx_etf \in Ledgers
    /\ positions_value = <<>>
    /\ cash_flow = Unset
    /\ NoCall

InitPerformance ==
    /\ caller = "performance"
    /\ pc = "ready"
    /\ px_etf = <<>>
    /\ tx_etf = <<>>
    /\ \E r \in PerfRanges :
          /\ start_date = r[1]
          /\ end_date = r[2]
          /\ positions_value \in PositionsSeries(r[1], r[2])
          /\ cash_flow \in CashSeries(r[1], r[2])
    /\ exclude_etfs = {}
    /\ etfs = {}
    /\ etf_prices = Unset
    /\ etf_quantities = Unset
    /\ freq = "Y"
    /\ period_tuples = <<>>
    /\ portfolio_perf = Unset
    /\ standard_deviation = Unset

\* The callers' sequence get_etf_prices, get_cash_flow over the whole price file.
InitCash ==
    /\ caller = "cash"
    /\ pc = "ready"
    /\ px_etf \in CashPriceTables
    /\ tx_etf \in Ledgers
    /\ positions_value = <<>>
    /\ cash_flow = Unset
    /\ NoCall

\* A positions value and a cash series over 1 .. MaxDays days for the risk
\* statistic: any positions value per day, the cash as get_cash_flow leaves it.
StdCashSeries(start, end) ==
    { [status |-> "ok",
       table |-> [d \in start .. end |-> [value |-> IF d < a THEN NaN ELSE Num(c)]]] :
        a \in start .. (end + 1), c \in CashVals }

InitStdDev ==
    /\ caller = "stddev"
    /\ pc = "ready"
    /\ px_etf = <<>>
    /\ tx_etf = <<>>
    /\ \E n \in 1 .. MaxDays :
          /\ start_date = LedgerFirst
          /\ end_date = LedgerFirst + n - 1
          /\ positions_value \in
                [LedgerFirst .. (LedgerFirst + n - 1) -> [value : {Num(v) : v \in PosVals}]]
          /\ cash_flow \in StdCashSeries(LedgerFirst, LedgerFirst + n - 1)
    /\ exclude_etfs = {}
    /\ etfs = {}
    /\ etf_prices = Unset
    /\ etf_quantities = Unset
    /\ freq = "Y"
    /\ period_tuples = <<>>
    /\ portfolio_perf = Unset
    /\ standard_deviation = Unset

\* The pipeline of the endpoints: get_etf_prices, get_etf_quantities,
\* get_cash_flow, get_positions_value over the whole price file.
\* The price files of the pipeline runs: a row on the first ledger day, and
\* in some a row on the last one, the day between them without observation.
PipelinePriceTables ==
    {t \in CashPriceTables : LedgerFirst + 1 \notin DOMAIN t}

InitPipeline ==
    /\ caller = "pipeline"
    /\ pc = "ready"
    /\ px_etf \in PipelinePriceTables
    /\ tx_etf \in Ledgers
    /\ positions_value = <<>>
    /\ cash_flow = Unset
    /\ NoCall

\* No request to a chart endpoint has arrived.
Requests == 1 .. MaxReq

NoFigure == <<>>

NoRequest ==
    /\ plot_lock = 0
    /\ current_figure = NoFigure
    /\ request_pc = [r \in Requests |-> "idle"]
    /\ request_charts = [r \in Requests |-> 1]
    /\ figures_created = [r \in Requests |-> 0]
    /\ plot_buffers = [r \in Requests |-> <<>>]

Init ==
    /\ \/ InitPrices
       \/ InitQuantities
       \/ InitPerformance
       \/ InitCash
       \/ InitStdDev
       \/ InitPipeline
    /\ NoRequest

\* START_DATE = index[0] and END_DATE = index[-1] of px_etf.csv
FirstIndex(table) == CHOOSE d \in DOMAIN table : \A o \in DOMAIN table : d <= o

LastIndex(table) == CHOOSE d \in DOMAIN table : \A o \in DOMAIN table : d >= o

\* get_etf_prices(start_date, end_date, exclude_etfs): any range and exclusion
\* for the function alone, the whole price file (START_DATE, END_DATE) when
\* the other functions follow.
CallGetEtfPrices ==
    /\ caller \in {"prices", "cash", "pipeline"}
    /\ pc = "ready"
    /\ \E r \in ArgRanges, excluded \in SUBSET ETFS :
          /\ caller # "prices" => r = <<FirstIndex(px_etf), LastIndex(px_etf)>>
          /\ start_date' = r[1]
          /\ end_date' = r[2]
          /\ exclude_etfs' = excluded
          /\ etf_prices' = [status |-> "ok",
                            table |-> get_etf_prices(px_etf, r[1], r[2], excluded)]
    /\ pc' = IF caller = "prices" THEN "done" ELSE "priced"
    /\ UNCHANGED plot_vars
    /\ UNCHANGED <<standard_deviation, caller, px_etf, tx_etf, etfs, etf_quantities,
                   positions_value,
                   cash_flow, freq, period_tuples, portfolio_perf>>

\* get_etf_quantities(start_date, end_date, etfs): any range and tickers for the
\* function alone; START_DATE, END_DATE and etfs_filtered in the pipeline.
CallGetEtfQuantities ==
    /\ \/ caller = "quantities" /\ pc = "ready"
       \/ caller = "pipeline" /\ pc = "priced"
    /\ \E r \in ArgRanges, columns \in SUBSET ETFS :
          /\ caller = "pipeline" =>
                r = <<start_date, end_date>> /\ columns = ETFS \ exclude_etfs
          /\ start_date' = r[1]
          /\ end_date' = r[2]
          /\ etfs' = columns
          /\ etf_quantities' = get_etf_quantities(tx_etf, r[1], r[2], columns)
    /\ pc' = IF caller = "pipeline" THEN "counted" ELSE "done"
    /\ UNCHANGED plot_vars
    /\ UNCHANGED <<standard_deviation, caller, px_etf, tx_etf, exclude_etfs, etf_prices,
                   positions_value,
                   cash_flow, freq, period_tuples, portfolio_perf>>

\* get_portfolio_performance(positions_value, cash_flow, start_date, end_date, f)
CallGetPortfolioPerformance ==
    /\ caller = "performance"
    /\ pc = "ready"
    /\ \E f \in Freqs :
          /\ freq' = f
          /\ IF f \notin ValidFreq
             THEN /\ portfolio_perf' = [status |-> "ValueError"]
                  /\ period_tuples' = period_tuples
             ELSE /\ period_tuples' = PerfWindows(start_date, end_date, f)
                  /\ portfolio_perf' = PerfTable(period_tuples', positions_value,
                                                 cash_flow.table, start_date)
    /\ pc' = "done"
    /\ UNCHANGED plot_vars
    /\ UNCHANGED <<standard_deviation, caller, px_etf, tx_etf, start_date, end_date,
                   exclude_etfs, etfs,
                   etf_prices, etf_quantities, positions_value, cash_flow>>

\* get_cash_flow(etf_prices, start_date, end_date, INVESTMENT, exclude_etfs)
CallGetCashFlow ==
    /\ \/ caller = "cash" /\ pc = "priced"
       \/ caller = "pipeline" /\ pc = "counted" /\ etf_quantities.status = "ok"
    /\ cash_flow' = get_cash_flow(etf_prices.table, tx_etf, start_date, end_date,
                                  INVESTMENT, exclude_etfs)
    /\ pc' = IF caller = "pipeline" THEN "cashed" ELSE "done"
    /\ UNCHANGED plot_vars
    /\ UNCHANGED <<standard_deviation, caller, px_etf, tx_etf, start_date, end_date,
                   exclude_etfs, etfs,
                   etf_prices, etf_quantities, positions_value, freq, period_tuples,
                   portfolio_perf>>

\* get_standard_deviation_of_daily_returns(positions_value, cash_flow)
CallGetStandardDeviation ==
    /\ caller = "stddev"
    /\ pc = "ready"
    /\ standard_deviation' =
          get_standard_deviation_of_daily_returns(positions_value, cash_flow.table)
    /\ pc' = "done"
    /\ UNCHANGED plot_vars
    /\ UNCHANGED <<caller, px_etf, tx_etf, start_date, end_date, exclude_etfs, etfs,
                   etf_prices, etf_quantities, positions_value, cash_flow, freq,
                   period_tuples, portfolio_perf>>

\* get_positions_value(etf_prices, etf_quantities), the last step of the
\* pipeline; a call that raised ends the pipeline before it.
CallGetPositionsValue ==
    /\ caller = "pipeline"
    /\ pc = "cashed"
    /\ cash_flow.status = "ok"
    /\ positions_value' = get_positions_value(etf_prices.table, etf_quantities.table)
    /\ pc' = "done"
    /\ UNCHANGED plot_vars
    /\ UNCHANGED <<caller, px_etf, tx_etf, start_date, end_date, exclude_etfs, etfs,
                   etf_prices, etf_quantities, cash_flow, freq, period_tuples,
                   portfolio_perf, standard_deviation>>

Next ==
    \/ CallGetStandardDeviation
    \/ CallGetPositionsValue
    \/ CallGetEtfPrices
    \/ CallGetEtfQuantities
    \/ CallGetCashFlow
    \/ CallGetPortfolioPerformance

Spec == Init /\ [][Next]_vars

(***************************************************************************)
(* The chart endpoints of the controller under concurrent requests: each   *)
(* request is a thread of the server's pool that draws its charts inside   *)
(* `with plot_lock:`.  pyplot keeps one current figure for the process.    *)
(***************************************************************************)
\* One chart (the price, positions and cash endpoints) or two (the monthly
\* and the annual performance endpoints).
ChartCounts == {1, 2}

InitPlot ==
    /\ caller = "charts"
    /\ pc = "ready"
    /\ px_etf = <<>>
    /\ tx_etf = <<>>
    /\ positions_value = <<>>
    /\ cash_flow = Unset
    /\ NoCall
    /\ NoRequest

\* A request arrives and its data is computed: it reaches `with plot_lock:`.
Arrive(r) ==
    /\ request_pc[r] = "idle"
    /\ \E c \in ChartCounts : request_charts' = [request_charts EXCEPT ![r] = c]
    /\ request_pc' = [request_pc EXCEPT ![r] = "waiting"]
    /\ UNCHANGED <<plot_lock, current_figure, figures_created, plot_buffers>>
    /\ UNCHANGED data_vars

\* plot_lock.__enter__: the lock is acquired when it is free.
AcquireUnlocked(r) ==
    /\ request_pc[r] = "waiting"
    /\ plot_lock' = r
    /\ request_pc' = [request_pc EXCEPT ![r] = "locked"]
    /\ UNCHANGED <<current_figure, request_charts, figures_created, plot_buffers>>
    /\ UNCHANGED data_vars

Acquire(r) ==
    /\ request_pc[r] = "waiting"
    /\ plot_lock = 0
    /\ plot_lock' = r
    /\ request_pc' = [request_pc EXCEPT ![r] = "locked"]
    /\ UNCHANGED <<current_figure, request_charts, figures_created, plot_buffers>>
    /\ UNCHANGED data_vars

\* dia.create_plot_data(...): plot.figure() makes a new figure the current
\* one; the drawing calls after it return or raise.
CreatePlotData(r) ==
    /\ request_pc[r] = "locked"
    /\ figures_created' = [figures_created EXCEPT ![r] = @ + 1]
    /\ current_figure' = <<r, figures_created[r] + 1>>
    /\ \E raised \in BOOLEAN :
          request_pc' = [request_pc EXCEPT ![r] = IF raised THEN "raising" ELSE "created"]
    /\ UNCHANGED <<plot_lock, request_charts, plot_buffers>>
    /\ UNCHANGED data_vars

\* dia.write_plot_to_buffer(): plot.savefig saves the current figure into a
\* new buffer, or raises.
WritePlotToBuffer(r) ==
    /\ request_pc[r] = "created"
    /\ \E raised \in BOOLEAN :
          IF raised
          THEN /\ request_pc' = [request_pc EXCEPT ![r] = "raising"]
               /\ plot_buffers' = plot_buffers
          ELSE /\ plot_buffers' = [plot_buffers EXCEPT ![r] = Append(@, current_figure)]
               /\ request_pc' =
                     [request_pc EXCEPT ![r] =
                         IF Len(plot_buffers[r]) + 1 < request_charts[r]
                         THEN "locked" ELSE "rendered"]
    /\ UNCHANGED <<plot_lock, current_figure, request_charts, figures_created>>
    /\ UNCHANGED data_vars

\* plot_lock.__exit__: the lock is released when the block ends or raises.
Release(r) ==
    /\ request_pc[r] \in {"rendered", "raising"}
    /\ plot_lock' = 0
    /\ request_pc' = [request_pc EXCEPT ![r] =
                         IF request_pc[r] = "rendered" THEN "returned" ELSE "failed"]
    /\ UNCHANGED <<current_figure, request_charts, figures_created, plot_buffers>>
    /\ UNCHANGED data_vars

NextPlot ==
    \E r \in Requests :
        \/ Arrive(r)
        \/ Acquire(r)
        \/ CreatePlotData(r)
        \/ WritePlotToBuffer(r)
        \/ Release(r)

\* Every thread that can take a step inside or into the locked block is
\* scheduled in the end.
FairPlot ==
    \A r \in Requests :
        /\ WF_vars(Acquire(r))
        /\ WF_vars(CreatePlotData(r))
        /\ WF_vars(WritePlotToBuffer(r))
        /\ WF_vars(Release(r))

SpecPlot == InitPlot /\ [][NextPlot]_vars /\ FairPlot

(***************************************************************************)
(* The claims.                                                             *)
(***************************************************************************)
PerfDone == caller = "performance" /\ pc = "done" /\ portfolio_perf.status = "ok"

Value(d) == ValueAt(positions_value, cash_flow.table, d)

Windows == DOMAIN period_tuples

\* C1: for start_date <= end_date and freq in {M, Y} the windows partition
\* [start_date, end_date]: the first starts at start_date, the last ends at
\* end_date, each later one starts the day after the previous one ends, every
\* day is in exactly one window, and a range inside one calendar period gives
\* the single window (start_date, end_date).
C1_WindowsPartition ==
    (caller = "performance" /\ pc = "done" /\ freq \in {"M", "Y"}) =>
        /\ Len(period_tuples) >= 1
        /\ period_tuples[1][1] = start_date
        /\ period_tuples[Len(period_tuples)][2] = end_date
        /\ \A i \in Windows : period_tuples[i][1] <= period_tuples[i][2]
        /\ \A i \in Windows :
              i > 1 => period_tuples[i][1] = period_tuples[i - 1][2] + 1
        /\ \A d \in start_date .. end_date :
              Cardinality({i \in Windows :
                  period_tuples[i][1] <= d /\ d <= period_tuples[i][2]}) = 1
        /\ LET s == CivilFromDays(start_date)
               e == CivilFromDays(end_date)
           IN  (s.year = e.year /\ (freq = "Y" \/ s.month = e.month))
                  => period_tuples = << <<start_date, end_date>> >>

\* C1 witness: three monthly windows, the range starting and ending mid-period.
C1_Witness ==
    /\ PerfDone
    /\ freq = "M"
    /\ Len(period_tuples) = 3
    /\ start_date # PeriodStart(start_date, "M")
    /\ end_date # PeriodEnd(end_date, "M")

RECURSIVE SumWindowUsd(_, _)
SumWindowUsd(rows, i) ==
    IF i = 1 THEN 0 ELSE rows[i].usd[1] + SumWindowUsd(rows, i - 1)

AllValuesDefined == \A d \in start_date .. end_date : ~IsNaN(Value(d))

\* C2: the 'USD value' entries of all windows sum to the change of
\* positions value + cash between start_date and end_date.
C2_UsdReconciles ==
    (PerfDone /\ AllValuesDefined) =>
        SumWindowUsd(portfolio_perf.rows, Len(portfolio_perf.rows))
            = Value(end_date)[1] - Value(start_date)[1]

\* C3: the table has one row per window, labelled by the window's end date
\* and holding end_value - start_value, after one leading row at start_date
\* whose 'USD value' and '% value' are both 0, for every input.
C3_RowsAndOrigin ==
    PerfDone =>
        LET rows == portfolio_perf.rows
        IN  /\ Len(rows) = Len(period_tuples) + 1
            /\ rows[1].date = start_date
            /\ rows[1].usd = Num(0)
            /\ rows[1].pct = Zero
            /\ \A i \in Windows :
                  /\ rows[i + 1].date = period_tuples[i][2]
                  /\ rows[i + 1].usd = Sub(Value(period_tuples[i][2]),
                                           Value(period_tuples[i][1]))

\* C4: a window whose start_value is 0 has '% value' exactly 0 and
\* 'USD value' end_value - start_value; a window whose start_value is not 0
\* has '% value' * start_value = (end_value - start_value) * 100.
C4_ZeroDivisionPolicy ==
    PerfDone =>
        \A i \in Windows :
            LET sv == Value(period_tuples[i][1])
                ev == Value(period_tuples[i][2])
                row == portfolio_perf.rows[i + 1]
            IN  /\ sv = Num(0) =>
                      /\ row.pct = Zero
                      /\ ~IsNaN(row.usd)
                      /\ row.usd = Sub(ev, sv)
                /\ (~IsNaN(sv) /\ sv # Num(0)) =>
                      /\ ~IsNaN(row.pct)
                      /\ row.pct[2] > 0
                      /\ row.pct[1] * sv[1] = (ev[1] - sv[1]) * 100 * row.pct[2]

\* C4 witness: a window that starts at value 0 and ends at another value.
C4_Witness ==
    /\ PerfDone
    /\ \E i \in Windows :
          /\ Value(period_tuples[i][1]) = Num(0)
          /\ Value(period_tuples[i][2]) \notin {NaN, Num(0)}
          /\ portfolio_perf.rows[i + 1].usd # Num(0)
          /\ portfolio_perf.rows[i + 1].pct = Zero

\* C5: a freq other than 'M' and 'Y' ends in ValueError with no window built
\* and no table returned.
C5_InvalidFreqFails ==
    (caller = "performance" /\ pc = "done" /\ freq \notin {"M", "Y"}) =>
        /\ portfolio_perf = [status |-> "ValueError"]
        /\ period_tuples = <<>>

\* C5 witness: the call was made with freq = 'D' and raised.
C5_Witness ==
    /\ caller = "performance"
    /\ pc = "done"
    /\ freq = "D"
    /\ portfolio_perf.status = "ValueError"

QuantitiesDone == caller = "quantities" /\ pc = "done"

Min(S) == CHOOSE x \in S : \A y \in S : x <= y

\* The dates of the transactions of a requested ticker.
ReplayedDates == {tx_etf[k].date : k \in {j \in DOMAIN tx_etf : tx_etf[j].ticker \in etfs}}

\* The net signed total of ticker i over the first n transactions dated <= d.
RECURSIVE NetTotal(_, _, _)
NetTotal(n, i, d) ==
    IF n = 0 THEN 0
    ELSE NetTotal(n - 1, i, d)
         + (IF tx_etf[n].ticker = i /\ tx_etf[n].date <= d
            THEN (IF tx_etf[n].order = "BUY" THEN tx_etf[n].qty ELSE 0 - tx_etf[n].qty)
            ELSE 0)

C7_ZeroBeforeFirstTransaction ==
    QuantitiesDone =>
        /\ etf_quantities.status = "ok"
        /\ \A i \in etfs : \A d \in start_date .. end_date :
              ((ReplayedDates = {} \/ d < Min(ReplayedDates))
                 \/ (\A k \in DOMAIN tx_etf : tx_etf[k].ticker # i))
                => etf_quantities.table[d][i] = Num(0)

PricesDone == caller = "prices" /\ pc = "done"

\* The in-range dates up to d on which px_etf.csv records a price of e.
ObservedUpTo(e, d) ==
    {o \in DOMAIN px_etf : start_date <= o /\ o <= d /\ ~IsNaN(px_etf[o][e])}

Max(S) == CHOOSE x \in S : \A y \in S : x >= y

\* C8: for every ticker left in and every day d of the range the price is
\* that of the most recent observation dated within [start_date, d], and
\* NaN when there is none.
C8_ForwardFillOnly ==
    PricesDone =>
        \A e \in ETFS \ exclude_etfs : \A d \in start_date .. end_date :
            etf_prices.table[d][e] =
                IF ObservedUpTo(e, d) = {} THEN NaN
                ELSE px_etf[Max(ObservedUpTo(e, d))][e]

\* C8 witness: a ticker observed before start_date and again inside the range,
\* and NaN on a day of the range before that second observation.
C8_Witness ==
    /\ PricesDone
    /\ \E e \in ETFS \ exclude_etfs : \E d \in start_date .. end_date :
          /\ IsNaN(etf_prices.table[d][e])
          /\ \E o \in DOMAIN px_etf : o < start_date /\ ~IsNaN(px_etf[o][e])
          /\ \E o \in DOMAIN px_etf : o > d /\ o <= end_date /\ ~IsNaN(px_etf[o][e])

\* C9: the tables get_etf_prices and get_etf_quantities return have exactly
\* one row per day of [start_date, end_date].
C9_OneRowPerDay ==
    /\ PricesDone =>
          /\ DOMAIN etf_prices.table = start_date .. end_date
          /\ Cardinality(DOMAIN etf_prices.table) = end_date - start_date + 1
    /\ (QuantitiesDone /\ etf_quantities.status = "ok") =>
          /\ DOMAIN etf_quantities.table = start_date .. end_date
          /\ Cardinality(DOMAIN etf_quantities.table) = end_date - start_date + 1

\* C9 witness: a quantity table over two days from a ledger with a single
\* in-range date and a date before the range.
C9_Witness ==
    /\ QuantitiesDone
    /\ etf_quantities.status = "ok"
    /\ etfs # {}
    /\ end_date = start_date + 1
    /\ \E k \in DOMAIN tx_etf : tx_etf[k].date < start_date
    /\ Cardinality(UniqueDates(tx_etf) \cap (start_date .. end_date)) = 1

CashDone == caller = "cash" /\ pc = "done" /\ cash_flow.status = "ok"

\* The transactions get_cash_flow does not skip, and their dates.
Counted == {k \in DOMAIN tx_etf : tx_etf[k].ticker \notin exclude_etfs}

CountedDates == {tx_etf[k].date : k \in Counted}

PricedAtOwnDate(k) == etf_prices.table[tx_etf[k].date][tx_etf[k].ticker]

\* The notional bought minus the notional sold over the first n transactions,
\* counting those left in and dated <= d, each at the price of its own date.
RECURSIVE NetSpent(_, _)
NetSpent(n, d) ==
    IF n = 0 THEN 0
    ELSE NetSpent(n - 1, d)
         + (IF n \in Counted /\ tx_etf[n].date <= d
            THEN (IF tx_etf[n].order = "BUY" THEN 1 ELSE 0 - 1)
                    * PricedAtOwnDate(n)[1] * tx_etf[n].qty
            ELSE 0)

\* C10: on every day d of the range on or after the first transaction left in,
\* the cash is invested_cash minus the notional of the BUYs plus the notional
\* of the SELLs dated on or before d, each priced at its own date; it changes
\* only on transaction dates; before the first such transaction it is NaN.
C10_CashBalance ==
    (CashDone /\ \A k \in Counted : ~IsNaN(PricedAtOwnDate(k))) =>
        \A d \in start_date .. end_date :
            /\ cash_flow.table[d].value =
                  IF \A o \in CountedDates : d < o THEN NaN
                  ELSE Num(INVESTMENT - NetSpent(Len(tx_etf), d))
            /\ (d > start_date /\ d \notin CountedDates) =>
                  cash_flow.table[d].value = cash_flow.table[d - 1].value

\* C10 witness: two transactions left in, on one date after start_date and
\* before end_date; NaN before that date, one balance from it on.
C10_Witness ==
    /\ CashDone
    /\ Len(tx_etf) = 2
    /\ Counted = {1, 2}
    /\ tx_etf[1].date = tx_etf[2].date
    /\ tx_etf[1].order # tx_etf[2].order
    /\ start_date < tx_etf[1].date /\ tx_etf[1].date < end_date
    /\ PricedAtOwnDate(1) # PricedAtOwnDate(2)
    /\ ~IsNaN(PricedAtOwnDate(1)) /\ ~IsNaN(PricedAtOwnDate(2))
    /\ IsNaN(cash_flow.table[start_date].value)
    /\ cash_flow.table[end_date].value # Num(INVESTMENT)
    /\ cash_flow.table[end_date].value = cash_flow.table[tx_etf[1].date].value

\* px_etf.csv records a price of transaction k's instrument on k's own date.
RecordedAtOwnDate(k) ==
    /\ tx_etf[k].date \in DOMAIN px_etf
    /\ ~IsNaN(px_etf[tx_etf[k].date][tx_etf[k].ticker])

\* C11: when a transaction left in is dated on a day for which px_etf.csv
\* records no price of its instrument, get_cash_flow as the pipeline calls it
\* raises the missing-price error: it uses no carried-forward price, returns
\* no undefined balance and does not skip the transaction.
C11_MissingPriceFails ==
    (caller = "cash" /\ pc = "done" /\ \E k \in Counted : ~RecordedAtOwnDate(k)) =>
        cash_flow.status = "KeyError"

StdDone == caller = "stddev" /\ pc = "done"

\* The days with a valid daily return: the value of the day and of the day
\* before are defined and the value of the day before is not 0.
ReturnDays ==
    {d \in (start_date + 1) .. end_date :
        ~IsNaN(Value(d)) /\ ~IsNaN(Value(d - 1)) /\ Value(d - 1) # Num(0)}

ZeroBase == \E d \in (start_date + 1) .. end_date : Value(d - 1) = Num(0)

ReturnOf(d) == Frac((Value(d)[1] - Value(d - 1)[1]) * 100, Value(d - 1)[1])

SampleMean ==
    FDiv(SumSkipNaN([d \in ReturnDays |-> ReturnOf(d)], ReturnDays),
         <<Cardinality(ReturnDays), 1>>)

SquaredDeviations ==
    SumSkipNaN([d \in ReturnDays |->
                   FMul(FSub(ReturnOf(d), SampleMean), FSub(ReturnOf(d), SampleMean))],
               ReturnDays)

\* C12: the statistic is the root of the sum of the squared deviations of the
\* valid daily returns from their mean divided by n - 1, n the number of
\* valid daily returns (the first day and every day without a defined return
\* left out of n).
C12_BesselCorrected ==
    (StdDone /\ ~ZeroBase /\ Cardinality(ReturnDays) >= 2) =>
        standard_deviation =
            [status |-> "ok",
             value |-> Sqrt(FDiv(SquaredDeviations,
                                 <<Cardinality(ReturnDays) - 1, 1>>))]

\* C13: with at most one valid daily return, or with a previous-day value of
\* 0 among the divisors, the call fails with a data error and returns no
\* number.
C13_UndefinedStatisticFails ==
    (StdDone /\ (Cardinality(ReturnDays) <= 1 \/ ZeroBase)) =>
        standard_deviation.status # "ok"

PipelineCounted ==
    /\ caller = "pipeline"
    /\ pc \in {"counted", "cashed", "done"}
    /\ etf_quantities.status = "ok"

PipelineCashed == caller = "pipeline" /\ pc \in {"cashed", "done"}

PipelineDone == caller = "pipeline" /\ pc = "done"

\* The run of the same pipeline with nothing excluded.
BasePrices == get_etf_prices(px_etf, start_date, end_date, {})

BaseQuantities == get_etf_quantities(tx_etf, start_date, end_date, ETFS)

BasePositions == get_positions_value(BasePrices, BaseQuantities.table)

\* The ledger without the transactions of the excluded instruments.
KeptLedger == SelectSeq(tx_etf, LAMBDA t : t.ticker \notin exclude_etfs)

\* The sum over the instruments of E of price * quantity on day d, nothing
\* excluded.
RECURSIVE ExcludedValue(_, _)
ExcludedValue(E, d) ==
    IF E = {} THEN 0
    ELSE LET i == CHOOSE x \in E : TRUE
         IN  BasePrices[d][i][1] * BaseQuantities.table[d][i][1]
                + ExcludedValue(E \ {i}, d)

\* C14: with the set E excluded the price table and the quantity table hold
\* the instruments outside E only; where the run with nothing excluded also
\* returns, the holdings of every instrument outside E are the same in both
\* runs and, on every day on which the prices of E are defined, positions
\* value is that of the run with nothing excluded minus the sum over E of
\* price * quantity; the cash is that of the ledger without E's transactions.
C14_ExclusionRemoves ==
    /\ (caller = "pipeline" /\ pc # "ready") =>
          \A d \in start_date .. end_date :
              DOMAIN etf_prices.table[d] = ETFS \ exclude_etfs
    /\ PipelineCounted =>
          /\ \A d \in start_date .. end_date :
                DOMAIN etf_quantities.table[d] = ETFS \ exclude_etfs
          /\ BaseQuantities.status = "ok" =>
                \A d \in start_date .. end_date : \A i \in ETFS \ exclude_etfs :
                    etf_quantities.table[d][i] = BaseQuantities.table[d][i]
    /\ PipelineCashed =>
          cash_flow = get_cash_flow(BasePrices, KeptLedger, start_date, end_date,
                                    INVESTMENT, {})
    /\ (PipelineDone /\ BaseQuantities.status = "ok") =>
          \A d \in start_date .. end_date :
              (\A i \in exclude_etfs : ~IsNaN(BasePrices[d][i])) =>
                  positions_value[d].value =
                      Num(BasePositions[d].value[1] - ExcludedValue(exclude_etfs, d))

\* C14 witness: B excluded from a ledger that buys B at a defined price; on
\* the last day the positions value and the cash differ from those of the
\* run with nothing excluded.
C14_Witness ==
    /\ PipelineDone
    /\ exclude_etfs = {"B"}
    /\ BaseQuantities.status = "ok"
    /\ \E k \in DOMAIN tx_etf : tx_etf[k].ticker = "B" /\ tx_etf[k].order = "BUY"
    /\ ~IsNaN(BasePrices[end_date]["B"])
    /\ positions_value[end_date].value # BasePositions[end_date].value
    /\ ~IsNaN(cash_flow.table[end_date].value)
    /\ cash_flow # get_cash_flow(BasePrices, tx_etf, start_date, end_date,
                                 INVESTMENT, {})

\* Every instrument left in has one defined price through the whole range.
ConstantPrices ==
    \A i \in ETFS \ exclude_etfs : \A d \in start_date .. end_date :
        /\ ~IsNaN(etf_prices.table[d][i])
        /\ etf_prices.table[d][i] = etf_prices.table[start_date][i]

\* The ledger without its k-th transaction, and positions value + cash on day
\* d of the same pipeline run on it.
WithoutTrade(k) == SubSeq(tx_etf, 1, k - 1) \o SubSeq(tx_etf, k + 1, Len(tx_etf))

QuantitiesWithout(k) ==
    get_etf_quantities(WithoutTrade(k), start_date, end_date, ETFS \ exclude_etfs)

CashWithout(k) ==
    get_cash_flow(etf_prices.table, WithoutTrade(k), start_date, end_date,
                  INVESTMENT, exclude_etfs)

ValueWithout(k, d) ==
    Add(get_positions_value(etf_prices.table, QuantitiesWithout(k).table)[d].value,
        CashWithout(k).table[d].value)

InLock == {r \in Requests : request_pc[r] \in {"locked", "created", "rendered", "raising"}}

PlotLockSafe ==
    /\ Cardinality({r \in Requests : request_pc[r] = "created"}) <= 1
    /\ Cardinality(InLock) <= 1
    /\ \A r \in InLock : plot_lock = r
    /\ \A r \in Requests :
          /\ request_pc[r] = "created" => current_figure = <<r, figures_created[r]>>
          /\ \A k \in DOMAIN plot_buffers[r] : plot_buffers[r][k] = <<r, k>>
          /\ request_pc[r] = "returned" => Len(plot_buffers[r]) = request_charts[r]

\* C16: at most one request at a time is between create_plot_data and the
\* matching write_plot_to_buffer, both inside plot_lock; the figure saved into
\* a request's buffer is the one that request created last; the lock is
\* released on every path, so a request waiting for it gets it and ends.
C16_PlotLock ==
    /\ []PlotLockSafe
    /\ \A r \in Requests :
          (request_pc[r] = "waiting") ~> (request_pc[r] \in {"returned", "failed"})

\* C16 witness: a request that has saved its first chart and created its
\* second figure while another request waits for the lock.
C16_Witness ==
    \E r, w \in Requests :
        /\ r # w
        /\ request_pc[r] = "created"
        /\ request_charts[r] = 2
        /\ Len(plot_buffers[r]) = 1
        /\ request_pc[w] = "waiting"
        /\ plot_lock = r

====
